---- MODULE Spec2Model ----
(***************************************************************************)
(* Model of generate_index.py: the chart acquisition-and-index pipeline    *)
(* (create_helm_index), the manifest reader (get_chart_info), the          *)
(* post-processor (post_process_index) and the validator (validate_index). *)
(*                                                                         *)
(* One run of the script is one pass from pc = "fetch" to pc = "exited".   *)
(* The output directory (the .tgz artifacts, index.yaml) and the helm      *)
(* client's repository list outlive a run; NewRun starts the script again  *)
(* on the same package tree and the same output directory.                 *)
(***************************************************************************)
EXTENDS Integers, Sequences, FiniteSets

\* ------------------------------------------------------------------ bounds
\* Largest number of chart directories in the package tree.
NumCharts == 3
\* The budgets of a run.  The script sets 800 and 50; the model runs the same
\* code with budgets small enough for a tree of NumCharts charts to exhaust.
PullBudget == 2
BuildBudget == 1

\* ------------------------------------------------------- configuration
MAX_SOURCE_BUILDS == BuildBudget
MAX_OCI_PULLS == PullBudget
ADD_OCI_LINK == FALSE
REMOVE_OCI_LINK == TRUE
\* The names the module defines at top level (lines 17-23); a read of any
\* other global name raises NameError.
ModuleGlobals ==
    {"MAX_SOURCE_BUILDS", "MAX_OCI_PULLS", "ADD_OCI_LINK", "REMOVE_OCI_LINK"}

\* ------------------------------------------------------- the package tree
\* What Chart.yaml of a chart directory holds, by what reading it does:
\*   io_error     open() raises IOError
\*   yaml_error   yaml.safe_load raises YAMLError
\*   empty        an empty document: safe_load returns None
\*   non_mapping  a list or a scalar document
\*   no_name      a mapping whose name is missing or empty
\*   no_version   a mapping whose version is missing or empty
\*   valid        a mapping with a name and a version
ManifestKinds ==
    {"io_error", "yaml_error", "empty", "non_mapping", "no_name", "no_version", "valid"}

\* Every chart of the tree has its own name; all have this version.
ChartVersion == "1.0.0"
OtherVersion == "0.9.0"
Names == 1..NumCharts

\* Line 219.  The charts of the tree are those of the first category.
chart_subdirs == <<"stable", "premium", "incubator", "system", "library">>
\* The directory charts/library/common.
LibraryCommon == 0

VARIABLES
    tree,               \* the chart directories in discovery order: their Chart.yaml
    registry,           \* the names whose ChartVersion the OCI registry holds
    repo_url,           \* REPO_HOST_URL: "" or a URL
    roots,              \* the category directories that exist under charts/
    library_common,     \* charts/library/common with a Chart.yaml exists
    flags,              \* the values of ADD_OCI_LINK and REMOVE_OCI_LINK
    files,              \* the .tgz files in package_dir, as <<name, version>>
    index_exists,       \* package_dir/index.yaml exists
    temp_repo,          \* "local-validation-repo" is in the helm client's list
    pc,                 \* position of the run
    exit_status,        \* how the process ended
    existing_index,     \* entries of the fetched index: name -> set of versions
    all_chart_dirs,     \* result of the scan
    i,                  \* enumerate index of the chart being processed
    oci_pull_count,
    source_build_count,
    httpd,              \* the validator's local server
    pending,            \* what leaves the validator's try block
    \* ---- record of the run, not read by the program
    last_outcome,       \* while the loop runs: the chart it left last, and how
    rerun,              \* the run follows an earlier run
    log,                \* the stage events of the run, in order
    \* ---- post_process_index on its own (SpecPostProcess)
    index_yaml,         \* the document in index.yaml
    pp_pc               \* "call", "returned" or the exception that left it

vars == <<tree, registry, repo_url, roots, library_common, flags, files, index_exists, temp_repo, pc, exit_status,
          existing_index, all_chart_dirs, i, oci_pull_count, source_build_count,
          httpd, pending, last_outcome, rerun, log,
          index_yaml, pp_pc>>

pp_vars == <<index_yaml, pp_pc, rerun>>

env == <<tree, registry, repo_url, roots, library_common, flags>>

Dirs == 1..Len(tree)
NoOutcome == [dir |-> 0, how |-> "none"]

\* ------------------------------------------------------- get_chart_info
\* The chart of directory d is named d.
get_chart_info(d) ==
    CASE tree[d] \in {"io_error", "yaml_error"} -> [ret |-> "None"]
      [] tree[d] \in {"empty", "non_mapping"} -> [ret |-> "AttributeError"]
      [] tree[d] = "no_name" -> [ret |-> "info", name |-> 0, version |-> ChartVersion]
      [] tree[d] = "no_version" -> [ret |-> "info", name |-> d, version |-> ""]
      [] OTHER -> [ret |-> "info", name |-> d, version |-> ChartVersion]

\* Python truth of info.get("name") and info.get("version"): None and "" are
\* false.  A missing or empty name is 0 here, a missing or empty version "".
FalsyName(n) == n = 0
FalsyVersion(v) == v = ""

package_filename(name, version) == <<name, version>>

\* Lines 244-245 left out: no chart counts as published.
InExistingIndex_Dropped(name, version) == FALSE

\* Line 244: the name is in the fetched index with an entry of this version.
InExistingIndex(name, version) ==
    /\ name \in DOMAIN existing_index
    /\ version \in existing_index[name]

\* Lines 251-252 left out: no artifact counts as cached.
ArtifactCached_Dropped(package_path) == FALSE

\* Line 251: os.path.exists(package_path)
ArtifactCached(package_path) == package_path \in files

\* The budget test off by one.
PullLimitReached_OffByOne == oci_pull_count > MAX_OCI_PULLS

\* Line 277
PullLimitReached == oci_pull_count >= MAX_OCI_PULLS

\* Line 294
BuildLimitReached == source_build_count >= MAX_SOURCE_BUILDS

\* ------------------------------------------------------- run_command
\* True on exit status 0; FileNotFoundError and CalledProcessError give False.
run_command(result) == result = "ok"
CommandResults == {"ok", "failed"}

\* The process ends.
Exit(status) ==
    /\ pc' = "exited"
    /\ exit_status' = status

Init ==
    /\ tree \in UNION {[1..n -> ManifestKinds] : n \in 0..NumCharts}
    /\ registry \in SUBSET {d \in DOMAIN tree : tree[d] = "valid"}
    /\ repo_url \in {"", "https://host/charts"}
    /\ roots \in SUBSET {chart_subdirs[k] : k \in DOMAIN chart_subdirs}
    /\ library_common \in BOOLEAN
    /\ library_common => "library" \in roots
    \* a tree with charts has the five categories and no library chart
    /\ tree # << >> =>
          roots = {chart_subdirs[k] : k \in DOMAIN chart_subdirs} /\ ~library_common
    /\ flags = [add |-> ADD_OCI_LINK, remove |-> REMOVE_OCI_LINK]
    /\ files = {}
    /\ index_exists = FALSE
    /\ temp_repo = FALSE
    /\ pc = "fetch"
    /\ exit_status = "running"
    /\ existing_index = << >>
    /\ all_chart_dirs = << >>
    /\ i = 0
    /\ oci_pull_count = 0
    /\ source_build_count = 0
    /\ httpd = "none"
    /\ pending = "none"
    /\ last_outcome = NoOutcome
    /\ rerun = FALSE
    /\ log = << >>
    /\ index_yaml = [kind |-> "empty", entries |-> << >>]
    /\ pp_pc = "idle"

\* ------------------------------------------------------- step 1, lines 189-215
\* The entries a fetched index can have: some of the charts at their version,
\* or every chart at another version only.
RemoteEntries ==
    {[d \in S |-> {ChartVersion}] : S \in SUBSET Dirs}
      \cup {[d \in Dirs |-> {OtherVersion}]}

\* What the body of a 200 response can be, by what lines 201-206 do with it:
\*   yaml_error    safe_load raises YAMLError
\*   empty         an empty or otherwise false document (None, {}, [], 0, "")
\*   number        a number other than 0, or true
\*   text          a string without the substring entries
\*   text_entries  a string with the substring entries
\*   no_entries    a mapping or a list without entries
\*   entries_null  a mapping whose entries is null
\*   entries       a mapping whose entries is a mapping
RemoteBodies ==
    {"yaml_error", "empty", "number", "text", "text_entries", "no_entries",
     "entries_null", "entries"}

\* Lines 201-206 on a saved body: the exception they raise.  The except
\* clauses of lines 209-212 catch RequestException and YAMLError only.
ReadRemoteIndex(body) ==
    CASE body = "yaml_error" -> "YAMLError"
      [] body = "number" -> "TypeError"           \* 'entries' in 42
      [] body = "text_entries" -> "AttributeError" \* str has no get
      [] body = "entries_null" -> "TypeError"      \* len(None)
      [] OTHER -> "none"

\* The fetch made whatever repo_url is.
FetchEnabled_Always == TRUE

\* Line 192
FetchEnabled == repo_url # ""

FetchExistingIndex ==
    /\ pc = "fetch"
    /\ IF ~FetchEnabled
       THEN /\ log' = Append(log, "fetch_skipped")
            /\ pc' = "scan"
            /\ UNCHANGED <<index_exists, existing_index, exit_status>>
       ELSE \/ \* RequestException, or a status other than 200
               /\ log' = Append(log, "fetch_failed")
               /\ pc' = "scan"
               /\ UNCHANGED <<index_exists, existing_index, exit_status>>
            \/ \* 200: the body is saved, then read
               /\ log' = Append(log, "fetch_saved")
               /\ index_exists' = TRUE
               /\ \E body \in RemoteBodies :
                     IF ReadRemoteIndex(body) \notin {"none", "YAMLError"}
                     THEN /\ Exit(ReadRemoteIndex(body))
                          /\ UNCHANGED existing_index
                     ELSE /\ pc' = "scan"
                          /\ UNCHANGED exit_status
                          /\ IF body = "entries"
                             THEN \E entries \in RemoteEntries : existing_index' = entries
                             ELSE UNCHANGED existing_index
    /\ UNCHANGED <<env, files, temp_repo, all_chart_dirs, i,
                   oci_pull_count, source_build_count, httpd, pending,
                   last_outcome, pp_vars>>

\* ------------------------------------------------------- step 2, lines 217-228
\* os.walk(root_path): the directories under root_path that hold a
\* Chart.yaml, in walk order.
Walk(root_path) ==
    CASE root_path = "stable" -> [d \in Dirs |-> d]
      [] root_path = "library" /\ library_common -> <<LibraryCommon>>
      [] OTHER -> << >>

\* Line 36: the directory is named common and its path has library in it.
IsLibraryChart(dirpath) == dirpath = LibraryCommon

\* Lines 26-40: nothing for a root that is not a directory; otherwise the
\* walk without the library chart.
find_chart_directories(root_path) ==
    IF root_path \notin roots THEN << >>
    ELSE SelectSeq(Walk(root_path), LAMBDA dirpath : ~IsLibraryChart(dirpath))

\* Lines 220-225: the categories' results, concatenated in order.
RECURSIVE ExtendAll(_)
ExtendAll(k) ==
    IF k = 0 THEN << >>
    ELSE ExtendAll(k - 1) \o find_chart_directories(chart_subdirs[k])

\* The test never true: the run goes on with an empty list.
NoChartsFound_Never(dirs) == FALSE

\* Line 226
NoChartsFound(dirs) == dirs = << >>

ScanCharts ==
    /\ pc = "scan"
    /\ all_chart_dirs' = ExtendAll(Len(chart_subdirs))
    /\ log' = Append(log, "scan")
    /\ IF NoChartsFound(all_chart_dirs')
       THEN /\ pc' = "exited"
            /\ exit_status' = "no_charts"
            /\ UNCHANGED i
       ELSE \* the for statement of line 235 starts, or has nothing to do
            /\ pc' = IF all_chart_dirs' = << >> THEN "index" ELSE "loop"
            /\ i' = 1
            /\ UNCHANGED exit_status
    /\ UNCHANGED <<env, files, index_exists, temp_repo, existing_index,
                   oci_pull_count, source_build_count, httpd, pending,
                   last_outcome, pp_vars>>

\* ------------------------------------------------------- step 3, lines 235-310
\* The loop not advancing: the same chart is processed again.
Continue_Stay(d, how) ==
    /\ last_outcome' = [dir |-> d, how |-> how]
    /\ i' = i
    /\ pc' = IF i + 1 > Len(all_chart_dirs) THEN "index" ELSE "loop"

\* The for statement moves to the next chart, or to step 4 after the last.
Continue(d, how) ==
    /\ last_outcome' = [dir |-> d, how |-> how]
    /\ i' = i + 1
    /\ pc' = IF i + 1 > Len(all_chart_dirs) THEN "index" ELSE "loop"

\* The budget test skips the pull only: the chart goes on to the build.
SkipPullAndBuild_PullOnly(chart_dir) ==
    /\ pc' = "build"
    /\ UNCHANGED <<i, last_outcome>>

\* Lines 278-281: with the pull budget used up the chart is left, the build
\* is not tried.
SkipPullAndBuild(chart_dir) == Continue(chart_dir, "pull_limit")

\* Lines 236-281: from the manifest to the pull budget test.
ProcessChart ==
    /\ pc = "loop"
    /\ LET chart_dir == all_chart_dirs[i]
           info == get_chart_info(chart_dir)
       IN  IF info.ret = "AttributeError"
           THEN /\ pc' = "exited"
                /\ exit_status' = "AttributeError"
                /\ UNCHANGED <<i, last_outcome>>
           ELSE /\ UNCHANGED exit_status
                /\ IF info.ret = "None" \/ FalsyName(info.name) \/ FalsyVersion(info.version)
                   THEN Continue(chart_dir, "no_chart_info")
                   ELSE IF InExistingIndex(info.name, info.version)
                   THEN Continue(chart_dir, "published")
                   ELSE IF ArtifactCached(package_filename(info.name, info.version))
                   THEN Continue(chart_dir, "cached")
                   ELSE IF PullLimitReached
                   THEN SkipPullAndBuild(chart_dir)
                   ELSE /\ pc' = "pull"
                        /\ UNCHANGED <<i, last_outcome>>
    /\ UNCHANGED <<env, files, index_exists, temp_repo, existing_index, all_chart_dirs,
                   oci_pull_count, source_build_count, httpd, pending,
                   log, pp_vars>>

\* What helm pull does for chart name: the registry's charts arrive as the
\* expected file; for any other chart the pull fails, or reports success and
\* leaves no file of the expected name.
PullResults(name) ==
    IF name \in registry THEN {"ok"} ELSE {"failed", "ok_no_file"}

\* The exit status of the pull trusted: the file is not looked for.
PullAcquired_Trusting(succeeded, package_path, dir) == succeeded

\* Lines 284-289: the pull has acquired the chart when the command succeeded
\* and package_path exists in the directory afterwards.
PullAcquired(succeeded, package_path, dir) == succeeded /\ package_path \in dir

\* Lines 283-291.  A pull that did not acquire the chart is recorded with
\* its result, and the chart goes on to the build.
OciPull ==
    /\ pc = "pull"
    /\ oci_pull_count' = oci_pull_count + 1
    /\ LET chart_dir == all_chart_dirs[i]
           info == get_chart_info(chart_dir)
           package_path == package_filename(info.name, info.version)
       IN  /\ \E result \in PullResults(info.name) :
                 /\ files' = IF result = "ok" THEN files \cup {package_path} ELSE files
                 /\ IF PullAcquired(run_command(IF result = "failed" THEN "failed" ELSE "ok"),
                                    package_path, files')
                    THEN Continue(chart_dir, "pulled")
                    ELSE /\ pc' = "build"
                         /\ last_outcome' = [dir |-> chart_dir, how |-> "pull_" \o result]
                         /\ UNCHANGED i
    /\ UNCHANGED <<env, index_exists, temp_repo, exit_status, existing_index,
                   all_chart_dirs, source_build_count, httpd, pending,
                   log, pp_vars>>

\* Lines 293-310.
SourceBuild ==
    /\ pc = "build"
    /\ LET chart_dir == all_chart_dirs[i]
           info == get_chart_info(chart_dir)
           package_path == package_filename(info.name, info.version)
       IN  IF BuildLimitReached
           THEN /\ Continue(chart_dir, "build_limit")
                /\ UNCHANGED <<source_build_count, files>>
           ELSE /\ source_build_count' = source_build_count + 1
                /\ \E dependency \in CommandResults, package \in CommandResults :
                      IF ~run_command(dependency)
                      THEN /\ Continue(chart_dir, "dependency_failed")
                           /\ UNCHANGED files
                      ELSE IF ~run_command(package)
                      THEN /\ Continue(chart_dir, "package_failed")
                           /\ UNCHANGED files
                      ELSE /\ Continue(chart_dir, "built")
                           /\ files' = files \cup {package_path}
    /\ UNCHANGED <<env, index_exists, temp_repo, exit_status, existing_index,
                   all_chart_dirs, oci_pull_count, httpd, pending,
                   log, pp_vars>>

\* ------------------------------------------------------- post_process_index
\* An index document is [kind |-> "empty"] (safe_load gives None),
\* [kind |-> "no_entries"] (a mapping without the key entries) or
\* [kind |-> "entries", entries |-> f], f mapping chart names to sequences of
\* release entries.  An entry is [appVersion |-> a, urls |-> u]; a and u are
\* tagged with their YAML type, "absent" standing for a missing key.
MaxUrls == 3
MaxEntries == 1

oci_url(chart_name) == <<"oci://quay.io/truecharts/", chart_name>>
TarballUrl == <<"https://host/charts/", "chart-1.0.0.tgz">>

AppVersions ==
    { [type |-> "absent", text |-> ""], [type |-> "null", text |-> ""],
      [type |-> "str", text |-> "1.0.0"], [type |-> "float", text |-> "1.0"],
      [type |-> "int", text |-> "2"] }

UrlLists(chart_name) ==
    UNION {[1..n -> {oci_url(chart_name), TarballUrl}] : n \in 0..MaxUrls}

UrlValues(chart_name) ==
    { [type |-> "absent", items |-> << >>], [type |-> "str", items |-> << >>] }
      \cup { [type |-> "list", items |-> l] : l \in UrlLists(chart_name) }

Entries(chart_name) ==
    { [appVersion |-> a, urls |-> u] : a \in AppVersions, u \in UrlValues(chart_name) }

IndexDocs ==
    { [kind |-> "empty", entries |-> << >>], [kind |-> "no_entries", entries |-> << >>],
      [kind |-> "entries", entries |-> << >>] }
      \cup { [kind |-> "entries", entries |-> [c \in {1} |-> es]] :
                es \in UNION {[1..n -> Entries(1)] : n \in 0..MaxEntries} }

\* str(x) of a YAML scalar
Str(a) == [type |-> "str", text |-> a.text]

InList(x, l) == \E k \in DOMAIN l : l[k] = x

\* list.remove(x): drops the first element equal to x
RECURSIVE ListRemove(_, _)
ListRemove(l, x) ==
    IF l = << >> THEN << >>
    ELSE IF Head(l) = x THEN Tail(l)
    ELSE <<Head(l)>> \o ListRemove(Tail(l), x)

\* The value of a global name at the moment it is read.
GlobalValue(name) ==
    CASE name = "ADD_OCI_LINK" -> flags.add
      [] name = "REMOVE_OCI_LINK" -> flags.remove
      [] OTHER -> FALSE

\* Lines 152-170 for one entry: [raised, entry].
ProcessEntry(chart_name, entry) ==
    LET a == entry.appVersion
        e1 == IF a.type \notin {"absent", "null"}
              THEN [entry EXCEPT !.appVersion = Str(a)] ELSE entry
        e2 == IF e1.urls.type # "list"
              THEN [e1 EXCEPT !.urls = [type |-> "list", items |-> << >>]] ELSE e1
        url == oci_url(chart_name)
        e3 == IF GlobalValue("ADD_OCI_URL") /\ ~InList(url, e2.urls.items)
              THEN [e2 EXCEPT !.urls.items = <<url>> \o @] ELSE e2
        e4 == IF GlobalValue("REMOVE_OCI_URL") /\ InList(url, e3.urls.items)
              THEN [e3 EXCEPT !.urls.items = ListRemove(@, url)] ELSE e3
    IN  IF "ADD_OCI_URL" \notin ModuleGlobals THEN [raised |-> "NameError", entry |-> e2]
        ELSE IF "REMOVE_OCI_URL" \notin ModuleGlobals THEN [raised |-> "NameError", entry |-> e3]
        ELSE [raised |-> "none", entry |-> e4]

\* Lines 138-177: [raised, written], written being index.yaml afterwards.
post_process_index(exists, doc) ==
    IF ~exists \/ doc.kind # "entries" THEN [raised |-> "none", written |-> doc]
    ELSE LET done == [c \in DOMAIN doc.entries |->
                        [k \in DOMAIN doc.entries[c] |-> ProcessEntry(c, doc.entries[c][k])]]
             failed == \E c \in DOMAIN done : \E k \in DOMAIN done[c] :
                          done[c][k].raised # "none"
         IN  IF failed THEN [raised |-> "NameError", written |-> doc]
             ELSE [raised |-> "none",
                   written |-> [doc EXCEPT !.entries =
                       [c \in DOMAIN done |-> [k \in DOMAIN done[c] |-> done[c][k].entry]]]]

\* post_process_index called on a document (SpecPostProcess).
PostProcessIndex ==
    /\ pp_pc = "call"
    /\ LET r == post_process_index(index_exists, index_yaml)
       IN  /\ index_yaml' = r.written
           /\ pp_pc' = IF r.raised = "none" THEN "returned" ELSE r.raised
    /\ UNCHANGED <<env, files, index_exists, temp_repo, pc, exit_status, existing_index,
                   all_chart_dirs, i, oci_pull_count, source_build_count, httpd,
                   pending, last_outcome, rerun, log>>

\* ------------------------------------------------------- step 4, lines 312-338
\* The merge failure treated as fatal: no generation without the merge base.
RetryWithoutMerge_Fatal(retry) ==
    /\ log' = log \o <<"merge_failed">>
    /\ Exit("exit_1")

\* Lines 320-326: the merge failed; the index is generated once more without
\* --merge, and only the failure of that command is fatal.
RetryWithoutMerge(retry) ==
    IF run_command(retry)
    THEN /\ log' = log \o <<"merge_failed", "index_ok">>
         /\ pc' = "post_process"
         /\ UNCHANGED exit_status
    ELSE /\ log' = log \o <<"merge_failed", "index_failed">>
         /\ Exit("exit_1")

GenerateIndex ==
    /\ pc = "index"
    /\ last_outcome' = NoOutcome
    /\ IF index_exists
       THEN \E merge \in CommandResults, retry \in CommandResults :
               /\ UNCHANGED index_exists
               /\ IF run_command(merge)
                  THEN /\ log' = log \o <<"merge_ok">>
                       /\ pc' = "post_process"
                       /\ UNCHANGED exit_status
                  ELSE RetryWithoutMerge(retry)
       ELSE \E index \in CommandResults, created \in BOOLEAN :
               IF ~run_command(index)
               THEN /\ log' = log \o <<"index_failed">>
                    /\ Exit("exit_1")
                    /\ UNCHANGED index_exists
               ELSE /\ index_exists' = created
                    /\ IF created
                       THEN /\ log' = log \o <<"index_ok">>
                            /\ pc' = "post_process"
                            /\ UNCHANGED exit_status
                       ELSE /\ log' = log \o <<"index_ok", "index_missing">>
                            /\ Exit("exit_1")
    /\ UNCHANGED <<env, files, temp_repo, existing_index, all_chart_dirs, i,
                   oci_pull_count, source_build_count, httpd, pending, pp_vars>>

\* What the index tool can have written, as far as line 340 can tell: no
\* document, no entries, an empty entries mapping, or a chart with a release.
GeneratedDocs ==
    { [kind |-> "empty", entries |-> << >>], [kind |-> "no_entries", entries |-> << >>],
      [kind |-> "entries", entries |-> << >>],
      [kind |-> "entries", entries |->
          << << [appVersion |-> [type |-> "str", text |-> "1.0.0"],
                 urls |-> [type |-> "list", items |-> <<TarballUrl>>]] >> >>] }

\* Line 340 left out: the index goes to the validator as generated.
PostProcess_Skipped ==
    /\ pc = "post_process"
    /\ pc' = "validate"
    /\ UNCHANGED <<env, files, index_exists, temp_repo, exit_status, existing_index,
                   all_chart_dirs, i, oci_pull_count, source_build_count, httpd, pending,
                   last_outcome, log, pp_vars>>

\* Line 340.  index.yaml holds what the index tool wrote; an exception that
\* post_process_index does not catch ends the process.
PostProcess ==
    /\ pc = "post_process"
    /\ log' = Append(log, "post_process")
    /\ \E doc \in GeneratedDocs :
          LET r == post_process_index(index_exists, doc)
          IN  IF r.raised = "none"
              THEN /\ pc' = "validate"
                   /\ UNCHANGED exit_status
              ELSE Exit(r.raised)
    /\ UNCHANGED <<env, files, index_exists, temp_repo, existing_index, all_chart_dirs, i,
                   oci_pull_count, source_build_count, httpd, pending,
                   last_outcome, pp_vars>>

\* ------------------------------------------------------- validate_index
\* A try statement without its finally clause: only a normal end of the
\* block reaches the cleanup.
Unwind_NoFinally(p) ==
    IF p = "return"
    THEN /\ pc' = "finally"
         /\ UNCHANGED exit_status
    ELSE /\ pc' = "exited"
         /\ exit_status' = p

\* Lines 75 and 101: whatever leaves the try block, return, SystemExit or
\* another exception, the finally clause runs first.
Unwind(p) ==
    /\ pc' = "finally"
    /\ UNCHANGED exit_status

\* The result of the search is not tested.
SearchPending_Ignored(search) ==
    IF search = "raised" THEN "exception" ELSE "return"

\* Lines 90-99: what the search leaves the try block with.
SearchPending(search) ==
    CASE search = "raised" -> "exception"
      [] ~run_command(IF search = "failed" THEN "failed" ELSE "ok") -> "TypeError"
      [] OTHER -> "return"

\* The finally clause ends in a return: what was pending is dropped.
LeaveValidator_Swallowed(p) ==
    /\ pc' = "ready"
    /\ UNCHANGED exit_status

\* After line 106: the pending return goes on to line 343, a pending
\* SystemExit or exception ends the process.
LeaveValidator(p) ==
    IF p = "return"
    THEN /\ pc' = "ready"
         /\ UNCHANGED exit_status
    ELSE /\ pc' = "exited"
         /\ exit_status' = p

\* Lines 60-73: the server is bound and its thread started.
StartServer ==
    /\ pc = "validate"
    /\ httpd' = "serving"
    /\ pending' = "none"
    /\ log' = Append(log, "server_started")
    /\ pc' = "add_repo"
    /\ UNCHANGED <<env, files, index_exists, temp_repo, exit_status, existing_index,
                   all_chart_dirs, i, oci_pull_count, source_build_count,
                   last_outcome, pp_vars>>

\* Lines 78-86: helm repo add; on failure the branch stops the server and
\* calls exit(1), which raises SystemExit into the finally clause.
AddRepo ==
    /\ pc = "add_repo"
    /\ \E add \in CommandResults :
          IF run_command(add)
          THEN /\ temp_repo' = TRUE
               /\ log' = Append(log, "add_ok")
               /\ pc' = "search"
               /\ UNCHANGED <<httpd, pending, exit_status>>
          ELSE /\ httpd' = "closed"
               /\ log' = log \o <<"add_failed", "shutdown">>
               /\ pending' = "exit_1"
               /\ Unwind(pending')
               /\ UNCHANGED temp_repo
    /\ UNCHANGED <<env, files, index_exists, existing_index,
                   all_chart_dirs, i, oci_pull_count, source_build_count,
                   last_outcome, pp_vars>>

\* What helm search repo can do: exit 0 with charts listed, exit 0 with
\* nothing listed, exit non-zero, or make subprocess.run raise an exception
\* run_command does not catch.
SearchResults == {"ok_listed", "ok_empty", "failed", "raised"}

\* Lines 88-99.  On failure line 92 calls run_command with the keyword
\* supprtess_output, a TypeError, so lines 94-97 are never reached.
SearchRepo ==
    /\ pc = "search"
    /\ \E search \in SearchResults :
          /\ log' = Append(log, "search_" \o search)
          /\ pending' = SearchPending(search)
          /\ Unwind(pending')
    /\ UNCHANGED <<env, files, index_exists, temp_repo, existing_index,
                   all_chart_dirs, i, oci_pull_count, source_build_count, httpd,
                   last_outcome, pp_vars>>

\* Lines 104-105.
FinallyShutdown ==
    /\ pc = "finally"
    /\ httpd' = "closed"
    /\ log' = Append(log, "shutdown")
    /\ pc' = "finally_remove"
    /\ UNCHANGED <<env, files, index_exists, temp_repo, exit_status, existing_index,
                   all_chart_dirs, i, oci_pull_count, source_build_count, pending,
                   last_outcome, pp_vars>>

\* helm repo remove succeeds when the name is in the client's list and fails
\* when it is not.
RemoveResult == IF temp_repo THEN "ok" ELSE "failed"

\* helm repo remove not waiting for the shutdown.
FinallyRemove_First ==
    /\ pc = "finally"
    /\ temp_repo' = IF run_command(RemoveResult) THEN FALSE ELSE temp_repo
    /\ log' = Append(log, "remove")
    /\ LeaveValidator(pending)
    /\ UNCHANGED <<env, files, index_exists, existing_index,
                   all_chart_dirs, i, oci_pull_count, source_build_count, httpd, pending,
                   last_outcome, pp_vars>>

\* Line 106, and then what was pending leaves validate_index.
FinallyRemove ==
    /\ pc = "finally_remove"
    /\ temp_repo' = IF run_command(RemoveResult) THEN FALSE ELSE temp_repo
    /\ log' = Append(log, "remove")
    /\ LeaveValidator(pending)
    /\ UNCHANGED <<env, files, index_exists, existing_index,
                   all_chart_dirs, i, oci_pull_count, source_build_count, httpd, pending,
                   last_outcome, pp_vars>>

\* ------------------------------------------------------- lines 343-350
RepositoryReady ==
    /\ pc = "ready"
    /\ log' = Append(log, "ready")
    /\ Exit("ready")
    /\ UNCHANGED <<env, files, index_exists, temp_repo, existing_index,
                   all_chart_dirs, i, oci_pull_count, source_build_count, httpd, pending,
                   last_outcome, pp_vars>>

\* ------------------------------------------------------- the script is run again
\* Line 363 in a new process: same tree, same registry, same configuration,
\* the output directory and the helm client's list as the last run left them.
NewRun ==
    /\ pc = "exited"
    /\ pc' = "fetch"
    /\ exit_status' = "running"
    /\ existing_index' = << >>
    /\ all_chart_dirs' = << >>
    /\ i' = 0
    /\ oci_pull_count' = 0
    /\ source_build_count' = 0
    /\ httpd' = "none"
    /\ pending' = "none"
    /\ last_outcome' = NoOutcome
    /\ rerun' = TRUE
    /\ log' = << >>
    /\ UNCHANGED <<env, files, index_exists, temp_repo, index_yaml, pp_pc>>

Next ==
    \/ FetchExistingIndex
    \/ ScanCharts
    \/ ProcessChart
    \/ OciPull
    \/ SourceBuild
    \/ GenerateIndex
    \/ PostProcess
    \/ StartServer
    \/ AddRepo
    \/ SearchRepo
    \/ FinallyShutdown
    \/ FinallyRemove
    \/ RepositoryReady
    \/ NewRun

Spec == Init /\ [][Next]_vars

\* Runs follow one another without end.
FairSpec == Init /\ [][Next]_vars /\ WF_vars(Next)

\* ------------------------------------------------------- post-processor alone
InitPostProcess ==
    /\ tree = << >>
    /\ registry = {}
    /\ repo_url = ""
    /\ roots = {}
    /\ library_common = FALSE
    /\ flags \in [add : BOOLEAN, remove : BOOLEAN]
    /\ files = {}
    /\ index_exists \in BOOLEAN
    /\ temp_repo = FALSE
    /\ pc = "post_process"
    /\ exit_status = "running"
    /\ existing_index = << >>
    /\ all_chart_dirs = << >>
    /\ i = 0
    /\ oci_pull_count = 0
    /\ source_build_count = 0
    /\ httpd = "none"
    /\ pending = "none"
    /\ last_outcome = NoOutcome
    /\ rerun = FALSE
    /\ log = << >>
    /\ index_yaml \in IndexDocs
    /\ ~index_exists => index_yaml.kind = "empty"
    /\ pp_pc = "call"

SpecPostProcess == InitPostProcess /\ [][PostProcessIndex]_vars

\* =======================================================================
\* Properties
\* =======================================================================
InLog(e) == \E k \in DOMAIN log : log[k] = e
ArtifactOf(d) == <<d, ChartVersion>>
Listed(d) == d \in DOMAIN existing_index /\ ChartVersion \in existing_index[d]
LeftAs(d, how) == last_outcome.dir = d /\ last_outcome.how = how
NonZeroExits == {"exit_1", "AttributeError", "NameError", "TypeError", "exception"}
LeftValidator == InLog("server_started") /\ pc \in {"ready", "exited"}
DeclaredReady == pc = "ready" \/ exit_status = "ready"

\* C1: in every state of a run the pulls attempted so far, which
\* oci_pull_count counts, are at most MAX_OCI_PULLS, and the builds attempted
\* so far, which source_build_count counts, at most MAX_SOURCE_BUILDS.
C1_BudgetInvariant ==
    /\ oci_pull_count <= MAX_OCI_PULLS
    /\ source_build_count <= MAX_SOURCE_BUILDS

\* Both budgets are used up and a chart has just been refused its build.
C1_Witness ==
    /\ oci_pull_count = MAX_OCI_PULLS
    /\ source_build_count = MAX_SOURCE_BUILDS
    /\ last_outcome.how = "build_limit"

\* C2: over runs that follow one another without end, a chart with a valid
\* manifest that a run left unacquired because the pull budget was used up is
\* acquired (or found published) in some later run.  Stated for the charts the
\* registry holds, whose pull succeeds whenever it is attempted.
C2_Convergence ==
    \A d \in Names :
        [](d \in registry /\ LeftAs(d, "pull_limit")
             => <>(ArtifactOf(d) \in files \/ LeftAs(d, "published")))

\* C3, as stated: a run that follows another, with the remote index fetched,
\* attempts no pull and no build.
C3_Original ==
    rerun /\ InLog("fetch_saved")
      => oci_pull_count = 0 /\ source_build_count = 0 /\ pc \notin {"pull", "build"}

\* C3, amended: a run that follows another attempts a pull or a build only
\* for a chart whose artifact the output directory does not hold and which
\* the fetched index does not list.
C3_RerunOnlyRetries ==
    rerun /\ pc \in {"pull", "build"}
      => ArtifactOf(all_chart_dirs[i]) \notin files /\ ~Listed(all_chart_dirs[i])

\* A second run pulls a chart the first run left unacquired, after it has
\* passed over an earlier chart whose artifact the first run left.
C3_Witness ==
    /\ rerun
    /\ pc = "pull"
    /\ \E d \in 1..(i - 1) : tree[d] = "valid" /\ ~Listed(d) /\ ArtifactOf(d) \in files

\* C4: the step that processes a chart which the fetched index lists, or whose
\* artifact is in the output directory, changes neither counter, attempts no
\* pull and no build, and goes on to the next chart.
C4_SkipStep ==
    LET d == all_chart_dirs[i]
    IN  (pc = "loop" /\ tree[d] = "valid" /\ (Listed(d) \/ ArtifactOf(d) \in files))
          => /\ oci_pull_count' = oci_pull_count
             /\ source_build_count' = source_build_count
             /\ files' = files
             /\ pc' \in {"loop", "index"}
             /\ i' = i + 1

C4_NoAcquisitionWhenPresent == [][C4_SkipStep]_vars

\* A chart was just skipped as cached, after an earlier chart of the run
\* that the fetched index lists.
C4_Witness ==
    /\ last_outcome.how = "cached"
    /\ ArtifactOf(last_outcome.dir) \in files
    /\ \E d \in 1..(last_outcome.dir - 1) : tree[d] = "valid" /\ Listed(d)

\* C5: the run reaches the ready declaration only after an index generation
\* that succeeded, with index.yaml on disk, the temporary repository added and
\* the search completed, and after none of the fatal conditions.
C5_ReadyOnlyAfterSuccess ==
    DeclaredReady =>
        /\ index_exists
        /\ InLog("merge_ok") \/ InLog("index_ok")
        /\ ~InLog("index_failed") /\ ~InLog("index_missing")
        /\ InLog("add_ok") /\ ~InLog("add_failed")
        /\ InLog("search_ok_listed") \/ InLog("search_ok_empty")
        /\ ~InLog("search_failed") /\ ~InLog("search_raised")

C5_Witness == exit_status = "ready" /\ InLog("ready")

\* C6: once the server was started, control leaves validate_index, by return,
\* SystemExit or exception, only with the server stopped and helm repo remove
\* attempted.
C6_CleanupOnEveryExit ==
    LeftValidator => httpd = "closed" /\ InLog("remove")

\* The search raised, and the process ended with the cleanup done.
C6_Witness ==
    /\ pc = "exited" /\ exit_status = "exception"
    /\ InLog("search_raised") /\ httpd = "closed" /\ InLog("remove")

\* C7, as stated: the run goes past the validator only when the search
\* succeeded with a non-empty result.
C7_Original == DeclaredReady => InLog("search_ok_listed")

\* C7, amended: a failed helm repo add and a failed search each end the run
\* with a non-zero status after the cleanup; the run goes past the validator
\* only when the search exited with status 0, and it does so whether or not
\* the search listed anything.
C7_ValidatorOutcome ==
    /\ LeftValidator /\ (InLog("add_failed") \/ InLog("search_failed"))
         => pc = "exited" /\ exit_status \in NonZeroExits /\ InLog("remove")
    /\ DeclaredReady => InLog("search_ok_listed") \/ InLog("search_ok_empty")
    /\ LeftValidator /\ (InLog("search_ok_listed") \/ InLog("search_ok_empty"))
         => DeclaredReady

\* The search failed and the process ended with a non-zero status.
C7_Witness ==
    /\ pc = "exited" /\ exit_status = "TypeError"
    /\ InLog("search_failed") /\ InLog("remove")

\* C8: no chart ends the process: a process that found charts ends only
\* after the loop has gone through every one of them.
C8_NoChartEndsTheRun ==
    pc = "exited" /\ all_chart_dirs # << >> => i = Len(all_chart_dirs) + 1

\* C9: with REMOVE_OCI_LINK set, after post_process_index has run on a
\* document with an entries mapping, no entry of index.yaml has the OCI URL of
\* its chart among its urls.
C9_NoOciUrlAfterRemove ==
    (pp_pc \notin {"idle", "call"} /\ index_exists /\ flags.remove
        /\ index_yaml.kind = "entries")
      => \A c \in DOMAIN index_yaml.entries : \A k \in DOMAIN index_yaml.entries[c] :
            ~InList(oci_url(c), index_yaml.entries[c][k].urls.items)

\* C10: after post_process_index has run, every entry of index.yaml that has
\* an appVersion has a string there.
C10_AppVersionIsString ==
    (pp_pc \notin {"idle", "call"} /\ index_exists /\ index_yaml.kind = "entries")
      => \A c \in DOMAIN index_yaml.entries : \A k \in DOMAIN index_yaml.entries[c] :
            index_yaml.entries[c][k].appVersion.type \in {"absent", "str"}

\* How many times event e is in the log of the run.
Count(e) == Cardinality({k \in DOMAIN log : log[k] = e})
IndexStageDone == InLog("merge_ok") \/ InLog("index_ok") \/ InLog("index_failed")

\* C11: a merge that failed is followed at once by exactly one index
\* generation without a merge base and does not by itself end the run; once
\* the index stage is over, the run has ended there with exit status 1 exactly
\* when a generation without merge base failed or index.yaml does not exist
\* after the generation, and otherwise it has gone on to post-processing.
C11_MergeFallback ==
    /\ \A k \in DOMAIN log : log[k] = "merge_failed"
          => k < Len(log) /\ log[k + 1] \in {"index_ok", "index_failed"}
    /\ InLog("merge_failed") => Count("index_ok") + Count("index_failed") = 1
    /\ IndexStageDone =>
          IF InLog("index_failed") \/ InLog("index_missing")
          THEN pc = "exited" /\ exit_status = "exit_1" /\ ~InLog("post_process")
          ELSE pc = "post_process" \/ InLog("post_process")

\* The merge failed, the generation without merge base succeeded, and the
\* run is about to post-process the index.
C11_Witness ==
    /\ InLog("merge_failed") /\ InLog("index_ok")
    /\ pc = "post_process" /\ exit_status = "running"

\* C12, as stated: with repo_url empty the run makes no fetch and no merge.
C12_Original ==
    repo_url = ""
      => /\ ~InLog("fetch_saved") /\ ~InLog("fetch_failed")
         /\ ~InLog("merge_ok") /\ ~InLog("merge_failed")

\* C12, amended: with repo_url empty the fetch step requests nothing and
\* leaves index.yaml and the lookup as they are; the index step merges when,
\* and only when, index.yaml is in the output directory already, and
\* otherwise generates the index without a merge base.
C12_Step ==
    repo_url = "" =>
      /\ pc = "fetch" => /\ log' = <<"fetch_skipped">>
                         /\ pc' = "scan"
                         /\ index_exists' = index_exists
                         /\ existing_index' = existing_index
      /\ pc = "index" => (index_exists <=> (InLog("merge_ok") \/ InLog("merge_failed"))')

C12_FirstRunMode == [][C12_Step]_vars

\* With repo_url empty, a run that found index.yaml left by an earlier run
\* has merged with it.
C12_Witness ==
    repo_url = "" /\ rerun /\ InLog("fetch_skipped") /\ InLog("merge_ok")

\* C13: a fetch that did not give an entries mapping (status other than 200,
\* request error, body that does not parse or has no entries mapping) does
\* not end the run: the run goes on to the scan, the lookup is empty and no
\* chart is skipped as published.
C13_FetchNeverFatal ==
    (InLog("fetch_failed") \/ (InLog("fetch_saved") /\ existing_index = << >>))
      => /\ pc = "exited" => InLog("scan")
         /\ last_outcome.how # "published"

\* No category holds a chart directory other than the library chart.
NothingToFind ==
    \A k \in DOMAIN chart_subdirs :
        chart_subdirs[k] \in roots =>
            \A j \in DOMAIN Walk(chart_subdirs[k]) :
                Walk(chart_subdirs[k])[j] = LibraryCommon

\* C14: once the scan has found no chart directory in any category, missing
\* category roots included, the run has ended with the no-charts outcome,
\* not a fatal one, and has made no pull, no build, no index generation, no
\* post-processing and no validation.
C14_NoChartsEndsEarly ==
    (InLog("scan") /\ NothingToFind)
      => /\ all_chart_dirs = << >>
         /\ pc = "exited" /\ exit_status = "no_charts"
         /\ oci_pull_count = 0 /\ source_build_count = 0 /\ files = {}
         /\ log[Len(log)] = "scan"
         /\ httpd = "none"

\* The run ended with no charts found: the first category root is missing
\* and the library category holds only the library chart.
C14_Witness ==
    /\ exit_status = "no_charts"
    /\ "stable" \notin roots /\ library_common

\* C15: a build is reached only from the pull of the same chart in the same
\* run, the pull counted and its artifact not in the output directory; the
\* build counter moves only in the build step; and the step that processes an
\* unpublished, uncached chart with the pull budget used up leaves both
\* counters and the output directory unchanged and goes on to the next chart,
\* whatever is left of the build budget.
C15_Step ==
    LET d == all_chart_dirs[i]
    IN  /\ pc' = "build" => /\ pc = "pull" /\ i' = i
                            /\ oci_pull_count' = oci_pull_count + 1
                            /\ ArtifactOf(d) \notin files'
        /\ source_build_count' = source_build_count + 1 => pc = "build"
        /\ (pc = "loop" /\ tree[d] = "valid" /\ ~Listed(d) /\ ArtifactOf(d) \notin files
              /\ oci_pull_count >= MAX_OCI_PULLS)
             => /\ pc' \in {"loop", "index"} /\ i' = i + 1
                /\ oci_pull_count' = oci_pull_count
                /\ source_build_count' = source_build_count
                /\ files' = files

C15_StrategyOrder == [][C15_Step]_vars

\* A chart was refused its pull with the pull budget used up while the build
\* budget was not.
C15_Witness ==
    /\ last_outcome.how = "pull_limit"
    /\ oci_pull_count = MAX_OCI_PULLS
    /\ source_build_count < MAX_SOURCE_BUILDS

\* C16, as stated: the server is never stopped while the temporary
\* repository is still in the helm client's list.
C16_Original == httpd = "closed" => ~temp_repo

\* C16, amended: on every way out of the validator the server is stopped
\* first and helm repo remove run afterwards; the temporary repository is
\* never removed while the server is still serving.
C16_CleanupOrder ==
    /\ \A k \in DOMAIN log :
          log[k] = "remove" => \E j \in 1..(k - 1) : log[j] = "shutdown"
    /\ InLog("remove") => httpd = "closed"
    /\ (httpd = "serving" /\ InLog("add_ok")) => temp_repo
    /\ LeftValidator => InLog("shutdown") /\ InLog("remove")

\* The repository was added, the server stopped and the repository removed.
C16_Witness ==
    /\ InLog("add_ok") /\ InLog("shutdown") /\ InLog("remove")
    /\ httpd = "closed" /\ ~temp_repo /\ pc = "ready"

\* C17: with ADD_OCI_LINK set and REMOVE_OCI_LINK not, after
\* post_process_index has run on a document with an entries mapping, every
\* entry's urls is a list that has the OCI URL of its chart first, and has it
\* once.
C17_AddPolicy ==
    (pp_pc \notin {"idle", "call"} /\ index_exists /\ flags.add /\ ~flags.remove
        /\ index_yaml.kind = "entries")
      => \A c \in DOMAIN index_yaml.entries : \A k \in DOMAIN index_yaml.entries[c] :
            LET urls == index_yaml.entries[c][k].urls
            IN  /\ urls.type = "list"
                /\ urls.items # << >>
                /\ urls.items[1] = oci_url(c)
                /\ Cardinality({j \in DOMAIN urls.items : urls.items[j] = oci_url(c)}) = 1

FetchEvents == {"fetch_skipped", "fetch_failed", "fetch_saved"}
IndexEvents == {"merge_ok", "merge_failed", "index_ok", "index_failed", "index_missing"}
\* The stage an event of the log belongs to, in the order of the code.
StageOf(e) ==
    CASE e \in FetchEvents -> 1
      [] e = "scan" -> 2
      [] e \in IndexEvents -> 4
      [] e = "post_process" -> 5
      [] e = "ready" -> 7
      [] OTHER -> 6

\* C18, as stated: the remote index is fetched and saved only after the scan.
C18_Original ==
    \A k \in DOMAIN log :
        log[k] = "fetch_saved" => \E j \in 1..(k - 1) : log[j] = "scan"

\* C18, amended: the stages of a run follow one another in the order fetch,
\* scan, the loop over the charts (manifest, then acquisition, chart by
\* chart), index generation, post-processing, validation; the fetch, the
\* scan, the post-processing and the start of the validator happen at most
\* once, each stage only after the one before it, and the fetch comes before
\* the scan.
C18_StageOrder ==
    /\ \A j, k \in DOMAIN log : j < k => StageOf(log[j]) <= StageOf(log[k])
    /\ Cardinality({k \in DOMAIN log : log[k] \in FetchEvents}) <= 1
    /\ Count("scan") <= 1 /\ Count("post_process") <= 1 /\ Count("server_started") <= 1
    /\ Count("merge_ok") + Count("merge_failed") <= 1
    /\ log # << >> => log[1] \in FetchEvents
    /\ pc = "scan" => Len(log) = 1
    /\ pc \in {"loop", "pull", "build", "index"} => Len(log) = 2 /\ log[2] = "scan"
    /\ IndexStageDone => Len(log) > 2 /\ log[2] = "scan"
    /\ InLog("post_process") => IndexStageDone
    /\ pc \in {"post_process", "validate"} => log[Len(log)] \in IndexEvents \cup {"post_process"}
    /\ InLog("server_started") => InLog("post_process")

\* A run that fetched and saved the remote index went through every stage.
C18_Witness ==
    /\ exit_status = "ready"
    /\ log[1] = "fetch_saved" /\ log[2] = "scan" /\ InLog("post_process")

\* C19: in every state the builds attempted are at most the pulls attempted,
\* and neither count is more than the number of charts the loop has taken up;
\* within a run each step leaves a counter as it is or adds one to it.
C19_Counts ==
    /\ source_build_count <= oci_pull_count
    /\ oci_pull_count <= i /\ source_build_count <= i
    /\ pc \in {"loop", "pull"} => oci_pull_count <= i - 1
    /\ pc \in {"loop", "pull", "build"} => source_build_count <= i - 1

C19_Step ==
    pc # "exited"
      => /\ oci_pull_count' \in {oci_pull_count, oci_pull_count + 1}
         /\ source_build_count' \in {source_build_count, source_build_count + 1}
         /\ i' = i => ~(/\ oci_pull_count' # oci_pull_count
                        /\ source_build_count' # source_build_count)

C19_BuildsAtMostPulls == []C19_Counts /\ [][C19_Step]_vars

\* Every pull so far was followed by a build.
C19_Witness ==
    /\ pc = "pull"
    /\ oci_pull_count > 0 /\ source_build_count = oci_pull_count

\* C20: a chart is left as pulled only with its artifact in the output
\* directory; a pull that failed, or succeeded and left no file of the
\* expected name, takes the same chart to the build, where the build budget
\* decides in the same way for both.
C20_Inv ==
    /\ \A d \in Names : LeftAs(d, "pulled") => ArtifactOf(d) \in files
    /\ last_outcome.how \in {"pull_failed", "pull_ok_no_file"}
         => /\ pc = "build"
            /\ all_chart_dirs[i] = last_outcome.dir
            /\ ArtifactOf(last_outcome.dir) \notin files

C20_Step ==
    pc = "build"
      => IF source_build_count >= MAX_SOURCE_BUILDS
         THEN /\ source_build_count' = source_build_count
              /\ files' = files
              /\ last_outcome'.how = "build_limit"
         ELSE /\ source_build_count' = source_build_count + 1
              /\ last_outcome'.how \in {"dependency_failed", "package_failed", "built"}

C20_PullNeedsArtifact == []C20_Inv /\ [][C20_Step]_vars

\* The pull reported success, the file is not there, the chart is at the
\* build.
C20_Witness ==
    /\ pc = "build"
    /\ last_outcome.how = "pull_ok_no_file"
    /\ ArtifactOf(last_outcome.dir) \notin files

====
